---------------------------- MODULE Spec2Model ----------------------------
(***************************************************************************)
(* eventQ.js: SimpleEventQ, a synchronous event queue attached to an       *)
(* object (on / off / trigger / getParent), and the Event object handed to *)
(* listeners.  The node build (src/unnamed/part_000) and the browser build *)
(* (src/public/javascripts/eventq.js) hold the same code; line numbers     *)
(* below are those of the node build.                                      *)
(*                                                                         *)
(* The closure of the module (lines 69-139) owns `listeners`,              *)
(* `defListeners` and `object`; the closure of Event (lines 25-51) owns    *)
(* `prevent` and `halt`.  They are the variables of the model.  Each       *)
(* public call is one action, since the code is synchronous.               *)
(***************************************************************************)
EXTENDS Integers, Sequences, FiniteSets, TLC

VARIABLES
    listeners,      \* closure var `listeners`: event name -> array of chain links
    defListeners,   \* closure var `defListeners`: event name -> default link
    object,         \* closure var `object`: the bound target
    prevent,        \* Event closure var `prevent`
    halt,           \* Event closure var `halt`
    attached,       \* the objects that carry the on/off/trigger methods
    queues,         \* the SimpleEventQ instances constructed so far, in order
    call,           \* the last public call: what was called, how it ended
    log,            \* the user functions invoked during the last call, in order
    pre,            \* listeners / defListeners / object as they were before the last call
    onCalls         \* per event name: the listeners passed to on() since the last off

vars == <<listeners, defListeners, object, prevent, halt, attached, queues,
          call, log, pre, onCalls>>

---------------------------------------------------------------------------
(* Bounds and input domains                                                *)

MaxQueues == 2      \* constructions of SimpleEventQ in one run
MaxOnCalls == 2     \* on() calls recorded in onCalls at a time
MaxDepth == 2       \* nested trigger calls before the stack is exhausted

Undefined == "undefined"            \* the JavaScript value undefined

Names == {"a", "b"}                 \* event names (none is a member name of Object.prototype)
Listeners == {"A", "P", "H", "T", "R"}  \* user functions passed to on()
Handlers == {"D1", "D2"}            \* user functions given in the defaults configuration
Data == {"d1", Undefined}           \* payloads passed to trigger(); data may be omitted

\* What a user function does with the event it receives.
Plain == [prevent |-> FALSE, halt |-> FALSE, throws |-> FALSE, triggers |-> Undefined]

Body(f) ==
    CASE f = "P" -> [Plain EXCEPT !.prevent = TRUE]     \* calls e.preventDefault()
      [] f = "H" -> [Plain EXCEPT !.halt = TRUE]        \* calls e.halt()
      [] f = "T" -> [Plain EXCEPT !.throws = TRUE]      \* throws an error of its own
      [] f = "R" -> [Plain EXCEPT !.triggers = "b"]     \* calls this.trigger("b", e.data)
      [] OTHER   -> Plain

\* Objects: caller-supplied targets, queue instances, and null.
Null == [kind |-> "null", id |-> 0]
Target(i) == [kind |-> "target", id |-> i]
QueueObj(i) == [kind |-> "queue", id |-> i]
Targets == {Target(1)}

EmptyMap == [k \in {} |-> Null]

\* The defaults configurations a caller may pass: event name -> handler.
Configs == {[k \in {"a"} |-> "D1"],
            [k \in {"a", "b"} |-> IF k = "a" THEN "D2" ELSE "D1"]}

\* Values a chain link may close over as `listener`.
FnValue(f) == [kind |-> "function", fn |-> f, cfg |-> EmptyMap]
ObjValue(cfg) == [kind |-> "object", fn |-> Undefined, cfg |-> cfg]

\* v.apply is Function.prototype.apply for a function; a plain configuration
\* object has no `apply` member (no event is named "apply").
HasApply(v) == v.kind = "function"

---------------------------------------------------------------------------
(* Event (lines 25-51)                                                     *)

\* `var Event = (function () { ... }());` : the function has no return
\* statement, so the variable holds undefined ("E" would be the class).
Event == Undefined

NoEvent == [name |-> Undefined, target |-> Null, data |-> Undefined]

\* new Event(event, obj, data), line 76: a TypeError unless Event is the class;
\* E.prototype.constructor stores the three arguments (lines 30-34).
NewEvent(event, obj, data) ==
    IF Event = Undefined
    THEN [threw |-> TRUE, e |-> NoEvent]
    ELSE [threw |-> FALSE, e |-> [name |-> event, target |-> obj, data |-> data]]


---------------------------------------------------------------------------
(* The chain links and their invocation                                    *)

\* The outcome of running user code: the Event flags, the invocations made
\* so far, and "ok" or the error that unwound the call.
Run(pr, hl, lg, oc) == [prevent |-> pr, halt |-> hl, log |-> lg, outcome |-> oc]

\* A listener may call this.trigger(...), so invoking a listener, running a
\* link and fireEvent call one another.  r is the outcome so far; depth
\* counts the trigger calls on the stack.
RECURSIVE fireEvent(_, _, _, _, _, _, _)
RECURSIVE RunLink(_, _, _, _, _, _, _, _)

\* listener.apply(object, [e]) (lines 100 and 106): the user function runs
\* with `object` as this and e as its argument; preventDefault() and halt()
\* set the flags of the Event closure (lines 35-46); a nested trigger is a
\* call of object.trigger (lines 120-123); nothing catches what it throws.
InvokeUser(ls, dl, v, obj, e, r, depth) ==
    IF ~HasApply(v) THEN [r EXCEPT !.outcome = "TypeError"]
    ELSE LET b == Body(v.fn)
             r1 == Run(r.prevent \/ b.prevent,
                       r.halt \/ b.halt,
                       Append(r.log, [fn |-> v.fn, this |-> obj, name |-> e.name,
                                      target |-> e.target, data |-> e.data]),
                       "ok")
             r2 == IF b.triggers = Undefined THEN r1
                   ELSE IF depth >= MaxDepth THEN [r1 EXCEPT !.outcome = "RangeError"]
                   ELSE fireEvent(ls, dl, obj, b.triggers, e.data, r1, depth + 1)
         IN  IF r2.outcome = "ok" /\ b.throws
             THEN [r2 EXCEPT !.outcome = "UserError"]
             ELSE r2

\* The function pushed by addListener (lines 99-102).  A link is
\* [listener, next]; next is the position in the chain of the link that was
\* last when this one was pushed, 0 for false.
RunLink(ls, dl, chain, i, obj, e, r, depth) ==
    LET r1 == InvokeUser(ls, dl, chain[i].listener, obj, e, r, depth)
    IN  IF r1.outcome # "ok" THEN r1
        ELSE IF ~r1.halt /\ chain[i].next # 0
             THEN RunLink(ls, dl, chain, chain[i].next, obj, e, r1, depth)
             ELSE r1

\* The function stored by addDefault (lines 105-107).
RunDefault(ls, dl, link, obj, e, r, depth) ==
    InvokeUser(ls, dl, link.listener, obj, e, r, depth)

---------------------------------------------------------------------------
(* The private functions of the queue (lines 75-108)                       *)

\* `listeners.length - 1` (line 80): `listeners` is the mapping object, not
\* the chain; it has no length member, and undefined - 1 is NaN.
ChainIndex(ls) == [isNum |-> FALSE, n |-> 0]

\* fireEvent (lines 75-86), entered with the outcome r0 so far.
fireEvent(ls, dl, obj, event, data, r0, depth) ==
    LET ev == NewEvent(event, obj, data)
        idx == ChainIndex(ls)
        r1 == IF event \in DOMAIN ls /\ Len(ls[event]) > 0
              THEN IF idx.isNum /\ idx.n \in 0..(Len(ls[event]) - 1)
                   THEN RunLink(ls, dl, ls[event], idx.n + 1, obj, ev.e, r0, depth)
                   ELSE [r0 EXCEPT !.outcome = "TypeError"]   \* undefined is called
              ELSE r0
    IN  IF ev.threw THEN [r0 EXCEPT !.outcome = "TypeError"]
        ELSE IF r1.outcome # "ok" THEN r1
        ELSE IF ~r1.prevent /\ ~r1.halt /\ event \in DOMAIN dl
             THEN RunDefault(ls, dl, dl[event], obj, ev.e, r1, depth)
             ELSE r1

\* removeListeners without its first branch (`if (!event) listeners = {}`):
\* an omitted event name is looked up like any other and removes nothing.
removeListeners_noClearAll(ls, event) ==
    IF event \in DOMAIN ls
    THEN [k \in DOMAIN ls \ {event} |-> ls[k]]
    ELSE ls

\* removeListeners taking a name without a chain for no name at all
\* (`if (!listeners[event]) listeners = {}`): a redundant off clears everything.
removeListeners_clearOnMiss(ls, event) ==
    IF event = Undefined \/ event \notin DOMAIN ls THEN EmptyMap
    ELSE [k \in DOMAIN ls \ {event} |-> ls[k]]

\* removeListeners (lines 87-92): the new value of `listeners`.
removeListeners(ls, event) ==
    IF event = Undefined THEN EmptyMap
    ELSE IF event \in DOMAIN ls
         THEN [k \in DOMAIN ls \ {event} |-> ls[k]]
         ELSE ls

\* addListener leaving the new chain empty: the array is created and stored
\* (line 96) but the link is never pushed onto it.
addListener_noPush(ls, event, listener) ==
    IF event \notin DOMAIN ls
    THEN [listeners |-> [k \in DOMAIN ls \cup {event} |->
                            IF k = event THEN <<>> ELSE ls[k]],
          outcome |-> "ok"]
    ELSE [listeners |-> ls, outcome |-> "TypeError"]

\* addListener failing after it has written: for an event that has a chain
\* the entry is dropped before q.length is read and throws.
addListener_dropOnError(ls, event, listener) ==
    IF event \notin DOMAIN ls
    THEN [listeners |-> [k \in DOMAIN ls \cup {event} |->
                            IF k = event
                            THEN <<[listener |-> FnValue(listener), next |-> 0]>>
                            ELSE ls[k]],
          outcome |-> "ok"]
    ELSE [listeners |-> [k \in DOMAIN ls \ {event} |-> ls[k]],
          outcome |-> "TypeError"]

\* addListener (lines 93-103): the new value of `listeners` and the outcome.
\* q is assigned only when the event has no chain yet; otherwise q is
\* undefined and reading q.length is a TypeError.
addListener(ls, event, listener) ==
    LET fresh == event \notin DOMAIN ls
        q == <<>>
        next == IF Len(q) > 0 THEN Len(q) ELSE 0
    IN  IF fresh
        THEN [listeners |-> [k \in DOMAIN ls \cup {event} |->
                                IF k = event
                                THEN Append(q, [listener |-> FnValue(listener), next |-> next])
                                ELSE ls[k]],
              outcome |-> "ok"]
        ELSE [listeners |-> ls, outcome |-> "TypeError"]

\* addDefault (lines 104-108): the new value of `defListeners`.
addDefault(dl, event, listener) ==
    [k \in DOMAIN dl \cup {event} |->
        IF k = event THEN [listener |-> listener] ELSE dl[k]]

\* The loop of the constructor (lines 124-128): addDefault(prop, defaults)
\* for every own property; the second argument is the configuration object
\* itself, not defaults[prop].
installDefaults(dl, defaults) ==
    [k \in DOMAIN dl \cup DOMAIN defaults |->
        IF k \in DOMAIN defaults
        THEN addDefault(dl, k, ObjValue(defaults))[k]
        ELSE dl[k]]

---------------------------------------------------------------------------
(* The public calls                                                        *)

Snapshot == [listeners |-> listeners, defListeners |-> defListeners, object |-> object]

Call(op, recv, event, arg, outcome, ret) ==
    [op |-> op, recv |-> recv, event |-> event, arg |-> arg,
     outcome |-> outcome, ret |-> ret]

NoOnCalls == [n \in Names |-> <<>>]

RECURSIVE OnTotal(_, _)
OnTotal(oc, S) ==
    IF S = {} THEN 0
    ELSE LET n == CHOOSE x \in S : TRUE
         IN  Len(oc[n]) + OnTotal(oc, S \ {n})

Init ==
    /\ listeners = EmptyMap
    /\ defListeners = EmptyMap
    /\ object = Null
    /\ prevent = FALSE
    /\ halt = FALSE
    /\ attached = {}
    /\ queues = <<>>
    /\ call = Call("load", Null, Undefined, Undefined, "ok", Null)
    /\ log = <<>>
    /\ pre = [listeners |-> EmptyMap, defListeners |-> EmptyMap, object |-> Null]
    /\ onCalls = NoOnCalls

\* new SimpleEventQ(defaults, listenTo) (lines 110-129, 135-137).
Construct(defaults, listenTo) ==
    /\ Len(queues) < MaxQueues
    /\ LET self == QueueObj(Len(queues) + 1)
           bound == IF listenTo = Null THEN self ELSE listenTo
       IN  /\ object' = bound
           /\ attached' = attached \cup {bound}
           /\ defListeners' = installDefaults(defListeners, defaults)
           /\ queues' = Append(queues, [self |-> self, defaults |-> defaults,
                                        listenTo |-> listenTo])
           /\ call' = Call("construct", self, Undefined, Undefined, "ok", self)
    /\ log' = <<>>
    /\ pre' = Snapshot
    /\ UNCHANGED <<listeners, prevent, halt, onCalls>>

\* recv.on(event, listener) (lines 112-115).
On(recv, event, listener) ==
    /\ OnTotal(onCalls, Names) < MaxOnCalls
    /\ LET res == addListener(listeners, event, listener)
       IN  /\ listeners' = res.listeners
           /\ call' = Call("on", recv, event, listener, res.outcome,
                           IF res.outcome = "ok" THEN recv ELSE Null)
    /\ onCalls' = [onCalls EXCEPT ![event] = Append(@, listener)]
    /\ log' = <<>>
    /\ pre' = Snapshot
    /\ UNCHANGED <<defListeners, object, prevent, halt, attached, queues>>

\* recv.off(event) (lines 116-119); event may be omitted.
Off(recv, event) ==
    /\ listeners' = removeListeners(listeners, event)
    /\ call' = Call("off", recv, event, Undefined, "ok", recv)
    /\ onCalls' = IF event = Undefined THEN NoOnCalls
                  ELSE [onCalls EXCEPT ![event] = <<>>]
    /\ log' = <<>>
    /\ pre' = Snapshot
    /\ UNCHANGED <<defListeners, object, prevent, halt, attached, queues>>

\* recv.trigger(event, data) (lines 120-123).
Trigger(recv, event, data) ==
    /\ LET r == fireEvent(listeners, defListeners, object, event, data,
                          Run(prevent, halt, <<>>, "ok"), 0)
       IN  /\ prevent' = r.prevent
           /\ halt' = r.halt
           /\ log' = r.log
           /\ call' = Call("trigger", recv, event, data, r.outcome,
                           IF r.outcome = "ok" THEN recv ELSE Null)
    /\ pre' = Snapshot
    /\ UNCHANGED <<listeners, defListeners, object, attached, queues, onCalls>>

\* q.getParent() (line 131).
GetParent(q) ==
    /\ call' = Call("getParent", q, Undefined, Undefined, "ok", object)
    /\ log' = <<>>
    /\ pre' = Snapshot
    /\ UNCHANGED <<listeners, defListeners, object, prevent, halt, attached,
                   queues, onCalls>>

Next ==
    \/ \E defaults \in Configs, listenTo \in Targets \cup {Null} :
          Construct(defaults, listenTo)
    \/ \E recv \in attached, event \in Names, listener \in Listeners :
          On(recv, event, listener)
    \/ \E recv \in attached, event \in Names \cup {Undefined} : Off(recv, event)
    \/ \E recv \in attached, event \in Names, data \in Data :
          Trigger(recv, event, data)
    \/ \E i \in 1..Len(queues) : GetParent(queues[i].self)

Spec == Init /\ [][Next]_vars

---------------------------------------------------------------------------
(* Vocabulary of the properties                                            *)

\* The state is the one right after trigger(n, ...).
AfterTrigger(n) == call.op = "trigger" /\ call.event = n

\* The user functions registered for n, in registration order (push order).
ChainFns(ls, n) ==
    IF n \in DOMAIN ls
    THEN [i \in 1..Len(ls[n]) |-> ls[n][i].listener.fn]
    ELSE <<>>

Range(s) == {s[i] : i \in 1..Len(s)}
Reverse(s) == [i \in 1..Len(s) |-> s[Len(s) + 1 - i]]
Fns(lg) == [i \in 1..Len(lg) |-> lg[i].fn]
Count(lg, f) == Cardinality({i \in 1..Len(lg) : lg[i].fn = f})
Dynamic(lg) == SelectSeq(Fns(lg), LAMBDA f : f \in Listeners)
Defaults(lg) == SelectSeq(Fns(lg), LAMBDA f : f \in Handlers)

\* The handler the defaults configuration gave for event k.
ConfiguredHandler(dl, k) == dl[k].listener.cfg[k]

\* The dispatch order the chain is meant to have: newest first, cut after
\* the first listener that calls halt().
RECURSIVE UntilHalt(_)
UntilHalt(s) ==
    IF s = <<>> THEN <<>>
    ELSE IF Body(Head(s)).halt THEN <<Head(s)>>
    ELSE <<Head(s)>> \o UntilHalt(Tail(s))

---------------------------------------------------------------------------
(* Properties                                                              *)

\* C1: when A and then B (distinct, neither calling halt()) were passed to
\* on(n, ...) with no off in between, a trigger(n) invokes A exactly once and
\* B exactly once.
C1_BothListenersOnce ==
    \A n \in Names, A \in Listeners, B \in Listeners :
        (/\ AfterTrigger(n)
         /\ onCalls[n] = <<A, B>>
         /\ A # B
         /\ ~Body(A).halt /\ ~Body(B).halt)
        => Count(log, A) = 1 /\ Count(log, B) = 1

\* C2: trigger(n, d) invokes every listener L registered for n with an event
\* whose name is n, whose target is the bound target the call was made on and
\* whose data is d.
C2_ListenerReceivesEvent ==
    \A n \in Names :
        AfterTrigger(n) =>
            \A L \in Range(ChainFns(listeners, n)) :
                \E i \in 1..Len(log) :
                    /\ log[i].fn = L
                    /\ log[i].name = n
                    /\ log[i].target = call.recv
                    /\ log[i].data = call.arg

\* C3: for a key k of the defaults configuration with handler fn, a
\* trigger(k, d) made while no dynamic listener is registered for k invokes
\* fn exactly once, with the event carrying d, and invokes nothing else.
C3_DefaultAloneRuns ==
    \A k \in Names :
        (AfterTrigger(k) /\ k \in DOMAIN defListeners /\ k \notin DOMAIN listeners)
        => /\ Fns(log) = <<ConfiguredHandler(defListeners, k)>>
           /\ log[1].data = call.arg

\* C4: in a trigger(n) whose chain holds a listener that calls
\* preventDefault() and none that calls halt(), the default listener for n is
\* not invoked and every listener of the chain still runs.
C4_PreventSkipsOnlyDefault ==
    \A n \in Names :
        (/\ AfterTrigger(n)
         /\ \E f \in Range(ChainFns(listeners, n)) : Body(f).prevent
         /\ \A f \in Range(ChainFns(listeners, n)) : ~Body(f).halt)
        => /\ Defaults(log) = <<>>
           /\ Range(ChainFns(listeners, n)) \subseteq Range(Dynamic(log))

\* C5: every trigger starts from flags that are both false: whatever the
\* earlier triggers did, a trigger(n) in which no listener calls
\* preventDefault() or halt() runs the full chain and the default for n.
C5_NoFlagLeak ==
    \A n \in Names :
        (/\ AfterTrigger(n)
         /\ \A f \in Range(ChainFns(listeners, n)) : ~Body(f).prevent /\ ~Body(f).halt)
        => /\ Range(ChainFns(listeners, n)) \subseteq Range(Dynamic(log))
           /\ (n \in DOMAIN defListeners => Len(Defaults(log)) = 1)

\* C6: in a trigger(n) whose chain holds a listener that calls halt(), that
\* listener runs and nothing runs after it in that call: no later listener
\* of the chain and no default listener.
C6_HaltStopsTheCall ==
    \A n \in Names :
        (/\ AfterTrigger(n)
         /\ \E f \in Range(ChainFns(listeners, n)) : Body(f).halt)
        => /\ log # <<>>
           /\ Body(log[Len(log)].fn).halt
           /\ \A i \in 1..(Len(log) - 1) : ~Body(log[i].fn).halt

\* C7: trigger(n) runs the chain for n newest registration first, then each
\* earlier one, until the chain is exhausted or a listener has halted.
C7_ReverseRegistrationOrder ==
    \A n \in Names :
        AfterTrigger(n) =>
            Dynamic(log) = UntilHalt(Reverse(ChainFns(listeners, n)))

\* C8: in a trigger(n) with dynamic listeners (none calling preventDefault()
\* or halt()) and a default for n, the default runs, once and last: every
\* dynamic listener of the call comes before it in the log, none after.
C8_DefaultRunsLast ==
    \A n \in Names :
        (/\ AfterTrigger(n)
         /\ n \in DOMAIN listeners
         /\ n \in DOMAIN defListeners
         /\ \A f \in Range(ChainFns(listeners, n)) : ~Body(f).prevent /\ ~Body(f).halt)
        => /\ log # <<>>
           /\ log[Len(log)].fn \in Handlers
           /\ \A i \in 1..(Len(log) - 1) : log[i].fn \in Listeners

\* C9: a trigger(n) made right after off(n) invokes no dynamic listener and
\* still invokes the default listener for n if there is one; and off(n)
\* leaves the chain of every other event name as it was.
C9_OffThenTrigger ==
    [][ /\ \A n \in Names :
             (call.op = "off" /\ call.event = n /\ call'.op = "trigger" /\ call'.event = n)
             => /\ Dynamic(log') = <<>>
                /\ (n \in DOMAIN defListeners => Len(Defaults(log')) = 1)
        /\ \A n \in Names :
             (call'.op = "off" /\ call'.event = n)
             => \A m \in Names \ {n} :
                    /\ (m \in DOMAIN listeners') = (m \in DOMAIN pre'.listeners)
                    /\ ChainFns(listeners', m) = ChainFns(pre'.listeners, m)
      ]_vars

\* C10: off() without an argument leaves no chain for any event name, and no
\* on, off or trigger call changes the default-listener mapping.
C10_OffAllKeepsDefaults ==
    /\ (call.op = "off" /\ call.event = Undefined) => DOMAIN listeners = {}
    /\ call.op \in {"on", "off", "trigger"} => defListeners = pre.defListeners

\* C10's case: off() was called while both event names had a chain and both
\* had a default listener.
C10_Witness ==
    /\ call.op = "off" /\ call.event = Undefined
    /\ DOMAIN pre.listeners = Names
    /\ DOMAIN defListeners = Names
    /\ DOMAIN listeners = {}

---------------------------------------------------------------------------
(* Properties of the calls' results and of the instances                   *)

\* The target a constructed queue was bound to: the listenTo it was given,
\* or the queue itself when listenTo was omitted.
BoundOf(q) == IF q.listenTo = Null THEN q.self ELSE q.listenTo

\* C11: for an event name n with neither a chain nor a default listener,
\* trigger(n) raises no error, invokes nothing, leaves both mappings as they
\* were and returns the bound target it was called on.
C11_UnknownEventIsNoOp ==
    \A n \in Names :
        (/\ AfterTrigger(n)
         /\ n \notin DOMAIN pre.listeners
         /\ n \notin DOMAIN pre.defListeners)
        => /\ call.outcome = "ok"
           /\ log = <<>>
           /\ listeners = pre.listeners
           /\ defListeners = pre.defListeners
           /\ call.ret = call.recv

\* C12: two queues bound to different targets have independent state: the
\* construction of the later one, and an on/off/trigger on the target of
\* one, leave the chains, the defaults and the bound target that the other
\* works on as they were.
C12_QueuesIndependent ==
    \A i \in 1..Len(queues), j \in 1..Len(queues) :
        (/\ i # j
         /\ BoundOf(queues[i]) # BoundOf(queues[j])
         /\ \/ call.op = "construct" /\ call.recv = queues[i].self /\ j < i
            \/ call.op \in {"on", "off", "trigger"} /\ call.recv = BoundOf(queues[i]))
        => /\ listeners = pre.listeners
           /\ defListeners = pre.defListeners
           /\ object = pre.object

\* C13: getParent() on a queue returns the target that queue was bound to at
\* its construction, whatever calls and constructions came after.
C13_GetParentIsOwnTarget ==
    \A i \in 1..Len(queues) :
        (call.op = "getParent" /\ call.recv = queues[i].self)
        => call.ret = BoundOf(queues[i])

\* C14: on, off and trigger each return the bound target they were called
\* on, for every input.
C14_CallsReturnTarget ==
    call.op \in {"on", "off", "trigger"}
    => call.outcome = "ok" /\ call.ret = call.recv

---------------------------------------------------------------------------
(* Properties of errors, nesting and the mappings                          *)

\* The listeners of the chain for n in the order they are meant to run.
DispatchOrder(ls, n) == UntilHalt(Reverse(ChainFns(ls, n)))

\* C15: when a listener reached by trigger(n) raises an error, that error
\* is the outcome of the trigger call, and the listener that raised it is the
\* last function invoked in the call.
C15_ListenerErrorPropagates ==
    \A n \in Names :
        (/\ AfterTrigger(n)
         /\ \E f \in Range(DispatchOrder(listeners, n)) : Body(f).throws
         /\ \A f \in Range(DispatchOrder(listeners, n)) : Body(f).triggers = Undefined)
        => /\ call.outcome = "UserError"
           /\ log # <<>>
           /\ Body(log[Len(log)].fn).throws
           /\ \A i \in 1..(Len(log) - 1) : ~Body(log[i].fn).throws

\* C16: when the listener R of trigger(n) calls trigger(m), the dispatch for
\* m runs inside R's invocation, before the outer call goes on, with an
\* event of its own: a preventDefault() or halt() on the inner event does not
\* keep the default listener for n from running.
C16_NestedTriggerOwnEvent ==
    \A n \in Names, f \in Listeners :
        LET m == Body("R").triggers
        IN  (/\ AfterTrigger(n)
             /\ n # m
             /\ ChainFns(listeners, n) = <<"R">>
             /\ ChainFns(listeners, m) = <<f>>
             /\ Body(f).prevent \/ Body(f).halt
             /\ n \in DOMAIN defListeners)
            => /\ call.outcome = "ok"
               /\ Fns(log) = <<"R", f, ConfiguredHandler(defListeners, n)>>
               /\ log[1].name = n /\ log[2].name = m /\ log[3].name = n

\* C17: every event name that is a key of the listener mapping has a chain
\* with at least one link.
C17_NoEmptyChain ==
    \A n \in DOMAIN listeners : Len(listeners[n]) >= 1

\* C17's case: off(n) has just removed the chain of n while another event
\* name keeps its chain.
C17_Witness ==
    /\ call.op = "off"
    /\ call.event \in DOMAIN pre.listeners
    /\ call.event \notin DOMAIN listeners
    /\ DOMAIN listeners # {}

C19_RegistrationsPersist ==
    \A n \in Names :
        AfterTrigger(n)
        => /\ listeners = pre.listeners
           /\ defListeners = pre.defListeners
           /\ \A f \in Range(DispatchOrder(pre.listeners, n)) : Count(log, f) >= 1

\* C20: when on, off or trigger itself raises an error, the listener
\* mapping, the default mapping and the bound target are as before the call.
C20_ErrorLeavesState ==
    (call.op \in {"on", "off", "trigger"} /\ call.outcome = "TypeError")
    => /\ listeners = pre.listeners
       /\ defListeners = pre.defListeners
       /\ object = pre.object

\* C20's case: on(n, ...) raised for a name that already had a chain, while
\* chains and defaults were in place.
C20_Witness ==
    /\ call.op = "on"
    /\ call.outcome = "TypeError"
    /\ call.event \in DOMAIN pre.listeners
    /\ DOMAIN defListeners # {}

===========================================================================
